---- MODULE Spec2Model ----
(***************************************************************************)
(* SafeLoRA (src/src/peft/utils/safelora.py): the alignment-matrix builder  *)
(* get_aligned_matrix, the per-layer projector/selector project_weights and *)
(* the orchestrator apply_safelora, on the devices == "cpu" path.           *)
(*                                                                          *)
(* Tensors are integer matrices with exact arithmetic.  The inputs are      *)
(* drawn from tensors whose Frobenius norms are integers, so the norm, the  *)
(* division by it and the cosine similarity are computed exactly; Sqrt and  *)
(* ExactDiv have no value on any other input.  A tensor that is NaN in      *)
(* every entry (0/0 of a zero difference) is the record with nan = TRUE.    *)
(* Scores are the cosine similarity rounded to Decimals places, in units of *)
(* 10^-Decimals; a NaN score is the record with nan = TRUE.                 *)
(* Names are sequences of tokens; "v in name" is contiguous containment.    *)
(* A dict is the sequence of its (key, tensor) entries in insertion order.  *)
(***************************************************************************)
EXTENDS Integers, Sequences, FiniteSets, TLC

\* ------------------------------------------------------------------ bounds
MaxLayers == 2
MaxNumProj == 3
MaxCalls == 2

\* numpy.round(..., 5)
Decimals == 5
Scale == 10 ^ Decimals

\* --------------------------------------------------------------- sequences
Range(s) == {s[i] : i \in DOMAIN s}

Min2(a, b) == IF a <= b THEN a ELSE b

Max2(a, b) == IF a >= b THEN a ELSE b

Abs(x) == IF x < 0 THEN -x ELSE x

RECURSIVE SumSeq(_)
SumSeq(s) == IF s = <<>> THEN 0 ELSE Head(s) + SumSeq(Tail(s))

RECURSIVE Flatten(_)
Flatten(rows) == IF rows = <<>> THEN <<>> ELSE Head(rows) \o Flatten(Tail(rows))

\* v in name: the token sequence v occurs contiguously in name
Contains(name, v) ==
    \E i \in 0..(Len(name) - Len(v)) : SubSeq(name, i + 1, i + Len(v)) = v

\* any(v in name for v in target_modules)
MatchesAny(name, target_modules) ==
    \E j \in DOMAIN target_modules : Contains(name, target_modules[j])

\* ------------------------------------------------------------------- dicts
Keys(d) == [i \in DOMAIN d |-> d[i].k]

HasKey(d, key) == \E i \in DOMAIN d : d[i].k = key

DictGet(d, key) == d[CHOOSE i \in DOMAIN d : d[i].k = key].t

\* d[key] = val: an existing key keeps its place, a new key is appended
DictSet(d, key, val) ==
    IF HasKey(d, key)
    THEN [i \in DOMAIN d |-> IF d[i].k = key THEN [k |-> key, t |-> val] ELSE d[i]]
    ELSE Append(d, [k |-> key, t |-> val])

\* ----------------------------------------------------------------- tensors
T(m) == [nan |-> FALSE, m |-> m]

Rows(t) == Len(t.m)

Cols(t) == Len(t.m[1])

Shape(t) == <<Rows(t), Cols(t)>>

Zeros(r, c) == [i \in 1..r |-> [j \in 1..c |-> 0]]

NaNTensor(r, c) == [nan |-> TRUE, m |-> Zeros(r, c)]

\* a - b: elementwise, a dimension of size 1 broadcast as torch does
Sub(a, b) ==
    LET r == Max2(Rows(a), Rows(b))
        c == Max2(Cols(a), Cols(b))
    IN  IF a.nan \/ b.nan THEN NaNTensor(r, c)
        ELSE T([i \in 1..r |-> [j \in 1..c |->
                 a.m[Min2(i, Rows(a))][Min2(j, Cols(a))]
               - b.m[Min2(i, Rows(b))][Min2(j, Cols(b))]]])

\* t.t()
Transpose(t) ==
    [nan |-> t.nan, m |-> [j \in 1..Cols(t) |-> [i \in 1..Rows(t) |-> t.m[i][j]]]]

\* torch.mm(a, b), for Cols(a) = Rows(b); NaN * x = NaN in every sum
MatMul(a, b) ==
    IF a.nan \/ b.nan THEN NaNTensor(Rows(a), Cols(b))
    ELSE T([i \in 1..Rows(a) |-> [j \in 1..Cols(b) |->
             SumSeq([k \in 1..Cols(a) |-> a.m[i][k] * b.m[k][j]])]])

SumSq(t) == SumSeq([i \in 1..Len(Flatten(t.m)) |-> Flatten(t.m)[i] * Flatten(t.m)[i]])

\* the exact square root; no value when n is not a perfect square
Sqrt(n) == CHOOSE r \in 0..n : r * r = n

\* the exact quotient; no value when s does not divide x
ExactDiv(x, s) == CHOOSE q \in {x \div s} : q * s = x

\* torch.norm(t): the Frobenius norm
Norm(t) == Sqrt(SumSq(t))

\* t / s for a 0-dim tensor s; 0 / 0 is NaN
DivScalar(t, s) ==
    IF t.nan THEN t
    ELSE IF s = 0 THEN NaNTensor(Rows(t), Cols(t))
    ELSE T([i \in 1..Rows(t) |-> [j \in 1..Cols(t) |-> ExactDiv(t.m[i][j], s)]])

\* round-half-even of num / den, den > 0
RoundHalfEven(num, den) ==
    LET q == num \div den
        r == num % den
    IN  IF 2 * r < den THEN q
        ELSE IF 2 * r > den THEN q + 1
        ELSE IF q % 2 = 0 THEN q ELSE q + 1

\* the spacing of float32 values around x: 2^(e-23) for 2^e <= |x| < 2^(e+1)
RECURSIVE Ulp32(_, _)
Ulp32(x, u) == IF Abs(x) < 16777216 * u THEN u ELSE Ulp32(x, 2 * u)

\* an integer cast to float32: exact below 2^24, else the nearest multiple of the ulp
F32(x) == LET u == Ulp32(x, 1) IN RoundHalfEven(x, u) * u

\* t.to(torch.float32)
ToFloat32(t) ==
    [nan |-> t.nan, m |-> [i \in 1..Rows(t) |-> [j \in 1..Cols(t) |-> F32(t.m[i][j])]]]

\* ------------------------------------------------------------------ scores
Score(x) == [nan |-> FALSE, val |-> x]

NaNScore == [nan |-> TRUE, val |-> 0]

\* a <= b on floats: FALSE when either is NaN
ScoreLeq(a, b) == ~a.nan /\ ~b.nan /\ a.val <= b.val

ScoreLt(a, b) == ~a.nan /\ ~b.nan /\ a.val < b.val

\* numpy.round(torch.nn.functional.cosine_similarity(x.reshape(1,-1), y.reshape(1,-1)).item(), 5)
\* cosine_similarity divides by max(|x| * |y|, eps): a zero vector scores 0
CosineSimilarity(x, y) ==
    LET fx == Flatten(x.m)
        fy == Flatten(y.m)
        w12 == SumSeq([i \in 1..Len(fx) |-> fx[i] * fy[i]])
        n12 == Norm(x) * Norm(y)
    IN  IF x.nan \/ y.nan THEN NaNScore
        ELSE IF n12 = 0 THEN Score(0)
        ELSE Score(RoundHalfEven(Scale * w12, n12))

\* numpy.sort order: ascending, NaN last
SortBefore(a, b) == IF a.nan THEN FALSE ELSE (b.nan \/ a.val <= b.val)

RECURSIVE Insert(_, _)
Insert(x, s) ==
    IF s = <<>> THEN <<x>>
    ELSE IF SortBefore(x, Head(s)) THEN <<x>> \o s
    ELSE <<Head(s)>> \o Insert(x, Tail(s))

\* numpy.sort(cos)
RECURSIVE NumpySort(_)
NumpySort(s) == IF s = <<>> THEN <<>> ELSE Insert(Head(s), NumpySort(Tail(s)))

\* ---------------------------------------------------------- SafetensorLoader
\* A weight store on disk: a single model.safetensors (sharded = FALSE, one
\* file, no index) or shard files with model.safetensors.index.json (index
\* maps each tensor name, in the index's order, to its shard file).
\* The loader keeps is_sharded and weight_map; weight_map stays None (the empty
\* option <<>>) for a single file.
SafetensorLoader(store) ==
    [ is_sharded |-> store.sharded,
      weight_map |-> IF store.sharded THEN <<store.index>> ELSE <<>>,
      files      |-> store.files ]

\* get_tensor(name), for a name the opened file holds
get_tensor(sl, name) ==
    LET file_path == IF ~sl.is_sharded THEN 1
                     ELSE (sl.weight_map[1])[CHOOSE i \in DOMAIN sl.weight_map[1] :
                                                 (sl.weight_map[1])[i].k = name].f
    IN  DictGet(sl.files[file_path], name)

\* [name for name in sl.weight_map.keys() if any(v in name for v in target_modules)]
SelectedNames(weight_map, target_modules) ==
    LET Hit(e) == MatchesAny(e.k, target_modules)
        hits == SelectSeq(weight_map, Hit)
    IN  [i \in DOMAIN hits |-> hits[i].k]

\* ------------------------------------------------------- get_aligned_matrix
\* a variant that compares shape[0] only
ShapeRowsOnly(a, b) == Rows(a) = Rows(b)

\* sl_base.get_tensor(name_base).shape == sl_align.get_tensor(name_align).shape
SameShape(a, b) == Shape(a) = Shape(b)

\* vec = base - aligned; vec.to(float32); torch.mm(vec, vec.t()) / torch.norm(vec)
AlignedMatrix(tb, ta) ==
    LET vec == ToFloat32(Sub(tb, ta))
    IN  DivScalar(MatMul(vec, Transpose(vec)), Norm(vec))

\* for name_base, name_align in zip(base, align): assert ...; v.append(...)
RECURSIVE AlignLoop(_, _, _, _, _, _)
AlignLoop(sl_base, sl_align, base, align, idx, v) ==
    IF idx > Min2(Len(base), Len(align)) THEN [err |-> "", v |-> v]
    ELSE LET tb == get_tensor(sl_base, base[idx])
             ta == get_tensor(sl_align, align[idx])
         IN  IF ~SameShape(tb, ta) THEN [err |-> "AssertionError", v |-> <<>>]
             ELSE AlignLoop(sl_base, sl_align, base, align, idx + 1,
                            Append(v, AlignedMatrix(tb, ta)))

\* get_aligned_matrix(base_model_path, aligned_model_path, devices, peft_config);
\* None.keys() raises AttributeError
get_aligned_matrix(base_store, aligned_store, target_modules) ==
    LET sl_align == SafetensorLoader(aligned_store)
        sl_base == SafetensorLoader(base_store)
    IN  IF sl_base.weight_map = <<>> \/ sl_align.weight_map = <<>>
        THEN [err |-> "AttributeError", v |-> <<>>]
        ELSE AlignLoop(sl_base, sl_align,
                       SelectedNames(sl_base.weight_map[1], target_modules),
                       SelectedNames(sl_align.weight_map[1], target_modules),
                       1, <<>>)

\* ---------------------------------------------------------- project_weights
\* [name for name in peft_weights.keys() if tag in name]
NamesWith(peft_weights, tag) ==
    LET Hit(e) == Contains(e.k, <<tag>>)
        hits == SelectSeq(peft_weights, Hit)
    IN  [i \in DOMAIN hits |-> hits[i].k]

\* a variant with a strict comparison
SelectedStrict(cos, threshold) == ScoreLt(cos, threshold)

\* if cos <= configs.threshold
Selected(cos, threshold) == ScoreLeq(cos, threshold)

\* the loop body for pair idx; st = [ok, err, weights, cos_total, i]
\* v[idx] past the end of v raises IndexError, leaving the entries already stored;
\* dis (lines 203-205) is computed and dropped, and is left out
RECURSIVE ProjectLoop(_, _, _, _, _, _, _)
ProjectLoop(threshold, ori_peft_weights, v, names_A, names_B, idx, st) ==
    IF idx > Min2(Len(names_A), Len(names_B)) THEN st
    ELSE IF idx > Len(v) THEN [st EXCEPT !.ok = FALSE, !.err = "IndexError"]
    ELSE LET A == DictGet(ori_peft_weights, names_A[idx])
             B == DictGet(ori_peft_weights, names_B[idx])
             P == v[idx]
             W == MatMul(P, B)
             fW == MatMul(W, A)
             ori == MatMul(B, A)
             cos == CosineSimilarity(fW, ori)
             hit == Selected(cos, threshold)
         IN  ProjectLoop(threshold, ori_peft_weights, v, names_A, names_B, idx + 1,
                 [st EXCEPT !.cos_total = Append(@, cos),
                            !.i = IF hit THEN @ + 1 ELSE @,
                            !.weights = DictSet(@, names_B[idx], IF hit THEN W ELSE B)])

\* a variant that collects the stored entries in a fresh dict
ProjectWeightsFresh(configs, peft_weights, v) ==
    ProjectLoop(configs.threshold, peft_weights, v,
                NamesWith(peft_weights, "lora_A"), NamesWith(peft_weights, "lora_B"), 1,
                [ok |-> TRUE, err |-> "", weights |-> <<>>, cos_total |-> <<>>, i |-> 0])

\* project_weights(configs, peft_weights, v): weights is the dict passed in, as
\* the call leaves it (the same object is returned), cos_total the scores
project_weights(configs, peft_weights, v) ==
    ProjectLoop(configs.threshold, peft_weights, v,
                NamesWith(peft_weights, "lora_A"), NamesWith(peft_weights, "lora_B"), 1,
                [ok |-> TRUE, err |-> "", weights |-> peft_weights, cos_total |-> <<>>, i |-> 0])

\* ------------------------------------------------------------------ inputs
Modules == <<"q_proj", "v_proj", "k_proj", "o_proj">>

Col(a, b) == T(<<<<a>>, <<b>>>>)

\* (base, aligned) weights of one target module
WeightPairChoices ==
    { [base |-> Col(3, 1), aligned |-> Col(1, 1)],           \* P = diag(2, 0)
      [base |-> Col(1, 3), aligned |-> Col(1, 1)],           \* P = diag(0, 2)
      [base |-> T(<<<<2, 1>>, <<1, 0>>>>), aligned |-> T(<<<<1, 0>>, <<0, 1>>>>)],  \* P = I
      [base |-> Col(1, 1), aligned |-> Col(1, 1)],           \* zero difference
      [base |-> Col(1, 1), aligned |-> T(<<<<0, 0>>, <<0, 2>>>>)] }  \* shapes differ

\* lora_B (2 x 1) and lora_A (1 x 1) of adapter layer j
LoraB(j) == IF j % 2 = 1 THEN Col(3, 4) ELSE Col(4, 3)

LoraA(j) == T(<<<<2>>>>)

\* configs.threshold: the default 0.5, and 0.6 and 1.0
ThresholdChoices == {Score(50000), Score(60000), Score(100000)}

WeightName(j) == <<"layers", Modules[j], "weight">>

EmbedName == <<"embed_tokens", "weight">>

LoraName(j, tag) == <<"layers", Modules[j], tag, "weight">>

ExtraName == <<"classifier", "bias">>

\* the store's tensors in its enumeration order
StoreEntries(n, w) ==
    <<[k |-> EmbedName, t |-> T(<<<<1, 1>>>>)]>> \o [j \in 1..n |-> [k |-> WeightName(j), t |-> w[j]]]

\* single file, or two shards: the first tensor in shard 1, the others in shard 2
MakeStore(sharded, entries) ==
    IF sharded
    THEN [ sharded |-> TRUE,
           index   |-> [i \in DOMAIN entries |-> [k |-> entries[i].k, f |-> IF i = 1 THEN 1 ELSE 2]],
           files   |-> <<SubSeq(entries, 1, 1), SubSeq(entries, 2, Len(entries))>> ]
    ELSE [ sharded |-> FALSE, index |-> <<>>, files |-> <<entries>> ]

\* adapter_model.safetensors of n layers, and a tensor that is no LoRA factor
RECURSIVE AdapterEntries(_)
AdapterEntries(n) ==
    IF n = 0 THEN <<[k |-> ExtraName, t |-> T(<<<<1>>, <<1>>>>)]>>
    ELSE AdapterEntries(n - 1)
         \o <<[k |-> LoraName(n, "lora_A"), t |-> LoraA(n)], [k |-> LoraName(n, "lora_B"), t |-> LoraB(n)]>>

\* ------------------------------------------------------------------- state
VARIABLES
    pc,             \* position in apply_safelora
    configs,        \* the SafeLoraConfig object
    peft_config,    \* adapter_config.json: target_modules
    base_model,     \* the weight store at base_model_path
    aligned_model,  \* the weight store at aligned_model_path
    adapter_file,   \* adapter_model.safetensors
    v,              \* the alignment matrices
    peft_weights,   \* the dict of loaded adapter tensors
    cos,            \* the scores of the first pass
    final_weights,  \* the local final_weights: <<>> while unbound
    final_wieghts,  \* the local final_wieghts: <<>> while unbound
    calls,          \* the project_weights calls made so far, each with its
                    \* ori_peft_weights, threshold and what it returned
    writes,         \* the number of save_file calls
    err,            \* the exception apply_safelora raised
    result          \* what apply_safelora returned: <<>> before it returns

vars == <<pc, configs, peft_config, base_model, aligned_model, adapter_file, v,
          peft_weights, cos, final_weights, final_wieghts, calls, writes, err, result>>

\* the dataclass fields (lines 37-75) and the attribute saveWeights that line 246
\* reads: "absent" when the object has no such attribute
ConfigChoices ==
    [ select_layers_type : {"threshold", "number"},
      threshold          : ThresholdChoices,
      num_proj_layers    : 0..MaxNumProj,
      devices            : {"cpu"},
      save_weights       : BOOLEAN,
      saveWeights        : {"absent", "true", "false"} ]

InitInputs ==
    /\ configs \in ConfigChoices
    /\ \E n \in 1..MaxLayers :
         /\ peft_config = [target_modules |-> [j \in 1..n |-> <<Modules[j]>>]]
         /\ \E w \in [1..n -> WeightPairChoices], sb \in BOOLEAN, sa \in BOOLEAN :
              /\ base_model = MakeStore(sb, StoreEntries(n, [j \in 1..n |-> w[j].base]))
              /\ aligned_model = MakeStore(sa, StoreEntries(n, [j \in 1..n |-> w[j].aligned]))
         /\ adapter_file = AdapterEntries(n)

Init ==
    /\ InitInputs
    /\ pc = "start"
    /\ v = <<>>
    /\ peft_weights = <<>>
    /\ cos = <<>>
    /\ final_weights = <<>>
    /\ final_wieghts = <<>>
    /\ calls = <<>>
    /\ writes = 0
    /\ err = ""
    /\ result = <<>>

Raise(e) == pc' = "raised" /\ err' = e

\* one project_weights call on the dict peft_weights: the call's record
Call(ret) ==
    [ori |-> peft_weights, threshold |-> configs.threshold, ok |-> ret.ok,
     weights |-> ret.weights, cos_total |-> ret.cos_total, i |-> ret.i]

\* --------------------------------------------------------- apply_safelora
\* lines 228-230: read adapter_config.json, v = get_aligned_matrix(...)
GetAlignedMatrixStep ==
    /\ pc = "start"
    /\ \E r \in {get_aligned_matrix(base_model, aligned_model, peft_config.target_modules)} :
           IF r.err # ""
           THEN Raise(r.err) /\ UNCHANGED v
           ELSE pc' = "aligned" /\ v' = r.v /\ UNCHANGED err
    /\ UNCHANGED <<configs, peft_config, base_model, aligned_model, adapter_file,
                   peft_weights, cos, final_weights, final_wieghts, calls, writes, result>>

\* {name: f.get_tensor(name).to(torch.float32) for name in f.keys()}
LoadTensors(file) == [i \in DOMAIN file |-> [k |-> file[i].k, t |-> ToFloat32(file[i].t)]]

\* lines 231-237: peft_weights = {...} from adapter_model.safetensors
LoadPeftWeights ==
    /\ pc = "aligned"
    /\ peft_weights' = LoadTensors(adapter_file)
    /\ pc' = "loaded"
    /\ UNCHANGED <<configs, peft_config, base_model, aligned_model, adapter_file, v,
                   cos, final_weights, final_wieghts, calls, writes, err, result>>

\* lines 238-239: final_weights, _ = project_weights(configs, peft_weights, v)
ProjectThreshold ==
    /\ pc = "loaded"
    /\ configs.select_layers_type = "threshold"
    /\ \E ret \in {project_weights(configs, peft_weights, v)} :
           /\ calls' = Append(calls, Call(ret))
           /\ peft_weights' = ret.weights
           /\ IF ret.ok
              THEN pc' = "projected" /\ final_weights' = <<ret.weights>> /\ UNCHANGED err
              ELSE Raise(ret.err) /\ UNCHANGED final_weights
    /\ UNCHANGED <<configs, peft_config, base_model, aligned_model, adapter_file, v,
                   cos, final_wieghts, writes, result>>

\* lines 240-241: _, cos = project_weights(configs, peft_weights, v)
ProjectNumberFirst ==
    /\ pc = "loaded"
    /\ configs.select_layers_type = "number"
    /\ \E ret \in {project_weights(configs, peft_weights, v)} :
           /\ calls' = Append(calls, Call(ret))
           /\ peft_weights' = ret.weights
           /\ IF ret.ok
              THEN pc' = "pass1" /\ cos' = ret.cos_total /\ UNCHANGED err
              ELSE Raise(ret.err) /\ UNCHANGED cos
    /\ UNCHANGED <<configs, peft_config, base_model, aligned_model, adapter_file, v,
                   final_weights, final_wieghts, writes, result>>

\* numpy.sort(cos)[: num_proj_layers][-1]: the slice stops at the end of the
\* array; [-1] of an empty slice raises IndexError
KthSmallest(scores, k) == SubSeq(NumpySort(scores), 1, Min2(k, Len(scores)))

\* lines 242-243: thrs = ...; configs.threshold = thrs
DeriveThreshold ==
    /\ pc = "pass1"
    /\ \E head \in {KthSmallest(cos, configs.num_proj_layers)} :
           IF head = <<>>
           THEN Raise("IndexError") /\ UNCHANGED configs
           ELSE /\ configs' = [configs EXCEPT !.threshold = head[Len(head)]]
                /\ pc' = "derived"
                /\ UNCHANGED err
    /\ UNCHANGED <<peft_config, base_model, aligned_model, adapter_file, v, peft_weights,
                   cos, final_weights, final_wieghts, calls, writes, result>>

\* line 244: final_wieghts, _ = project_weights(configs, peft_weights, v)
ProjectNumberSecond ==
    /\ pc = "derived"
    /\ \E ret \in {project_weights(configs, peft_weights, v)} :
           /\ calls' = Append(calls, Call(ret))
           /\ peft_weights' = ret.weights
           /\ IF ret.ok
              THEN pc' = "projected" /\ final_wieghts' = <<ret.weights>> /\ UNCHANGED err
              ELSE Raise(ret.err) /\ UNCHANGED final_wieghts
    /\ UNCHANGED <<configs, peft_config, base_model, aligned_model, adapter_file, v,
                   cos, final_weights, writes, result>>

\* lines 246-247: if configs.saveWeights: save_file(final_wieghts, ...)
SaveWeights ==
    /\ pc = "projected"
    /\ IF configs.saveWeights = "absent"
       THEN Raise("AttributeError") /\ UNCHANGED <<adapter_file, writes>>
       ELSE IF configs.saveWeights = "false"
       THEN pc' = "after_save" /\ UNCHANGED <<adapter_file, writes, err>>
       ELSE IF final_wieghts = <<>>
       THEN Raise("UnboundLocalError") /\ UNCHANGED <<adapter_file, writes>>
       ELSE /\ adapter_file' = final_wieghts[1]
            /\ writes' = writes + 1
            /\ pc' = "after_save"
            /\ UNCHANGED err
    /\ UNCHANGED <<configs, peft_config, base_model, aligned_model, v, peft_weights,
                   cos, final_weights, final_wieghts, calls, result>>

\* line 249: return final_wieghts
Return ==
    /\ pc = "after_save"
    /\ IF final_wieghts = <<>>
       THEN Raise("UnboundLocalError") /\ UNCHANGED result
       ELSE pc' = "returned" /\ result' = final_wieghts /\ UNCHANGED err
    /\ UNCHANGED <<configs, peft_config, base_model, aligned_model, adapter_file, v,
                   peft_weights, cos, final_weights, final_wieghts, calls, writes>>

Next ==
    \/ GetAlignedMatrixStep
    \/ LoadPeftWeights
    \/ ProjectThreshold
    \/ ProjectNumberFirst
    \/ DeriveThreshold
    \/ ProjectNumberSecond
    \/ SaveWeights
    \/ Return

Spec == Init /\ [][Next]_vars

\* ------------------------------------- project_weights called repeatedly
\* A caller that holds the loaded adapter dict and the alignment matrices and
\* calls project_weights on them under the threshold policy, up to MaxCalls times.
InitTwice ==
    /\ InitInputs
    /\ configs.select_layers_type = "threshold"
    /\ \E r \in {get_aligned_matrix(base_model, aligned_model, peft_config.target_modules)} :
         r.err = "" /\ v = r.v
    /\ peft_weights = LoadTensors(adapter_file)
    /\ pc = "held"
    /\ cos = <<>>
    /\ final_weights = <<>>
    /\ final_wieghts = <<>>
    /\ calls = <<>>
    /\ writes = 0
    /\ err = ""
    /\ result = <<>>

CallProject ==
    /\ pc = "held"
    /\ Len(calls) < MaxCalls
    /\ \E ret \in {project_weights(configs, peft_weights, v)} :
           /\ calls' = Append(calls, Call(ret))
           /\ peft_weights' = ret.weights
    /\ UNCHANGED <<pc, configs, peft_config, base_model, aligned_model, adapter_file, v,
                   cos, final_weights, final_wieghts, writes, err, result>>

NextTwice == CallProject

SpecTwice == InitTwice /\ [][NextTwice]_vars

\* ------------------------------------------------------------ properties
\* the adapter layers of a dict: its (lora_A, lora_B) pairs by position
NumPairs(d) == Min2(Len(NamesWith(d, "lora_A")), Len(NamesWith(d, "lora_B")))

NameB(d, j) == NamesWith(d, "lora_B")[j]

\* lora_B of layer j in dict d
LayerB(d, j) == DictGet(d, NameB(d, j))

\* W_j = P_j * B_j for the B_j of dict d
ProjectedB(d, j) == MatMul(v[j], LayerB(d, j))

\* the tensors of a store in its enumeration order, and the selected ones
RECURSIVE Concat(_)
Concat(ss) == IF ss = <<>> THEN <<>> ELSE Head(ss) \o Concat(Tail(ss))

TargetTensors(store) ==
    LET Hit(e) == MatchesAny(e.k, peft_config.target_modules)
    IN  SelectSeq(Concat(store.files), Hit)

PairCount == Min2(Len(TargetTensors(base_model)), Len(TargetTensors(aligned_model)))

MismatchAt(j) == Shape(TargetTensors(base_model)[j].t) # Shape(TargetTensors(aligned_model)[j].t)

PairedMismatch == \E j \in 1..PairCount : MismatchAt(j)

WellFormedStores == base_model.sharded /\ aligned_model.sharded /\ ~PairedMismatch

Terminal == pc \in {"returned", "raised"}

\* every pass of the configured policy has returned
PipelineCompleted ==
    \/ configs.select_layers_type = "threshold" /\ Len(calls) = 1 /\ calls[1].ok
    \/ configs.select_layers_type = "number" /\ Len(calls) = 2 /\ calls[2].ok

NoNaN(scores) == \A j \in DOMAIN scores : ~scores[j].nan

\* C1: in a call of project_weights under the threshold policy, layer j's
\* returned lora_B is the projection W_j = P_j * B_j when its rounded score is
\* <= the threshold (equality included) and the B_j passed in otherwise, and the
\* call counts exactly the layers with score <= threshold as replaced.
C1_ThresholdRule ==
    \A n \in DOMAIN calls :
        (configs.select_layers_type = "threshold" /\ calls[n].ok) =>
            /\ \A j \in 1..NumPairs(calls[n].ori) :
                 IF ScoreLeq(calls[n].cos_total[j], calls[n].threshold)
                 THEN LayerB(calls[n].weights, j) = ProjectedB(calls[n].ori, j)
                 ELSE LayerB(calls[n].weights, j) = LayerB(calls[n].ori, j)
            /\ calls[n].i = Cardinality({j \in 1..NumPairs(calls[n].ori) :
                                ScoreLeq(calls[n].cos_total[j], calls[n].threshold)})

\* a threshold-policy call with a layer whose score equals the threshold, which
\* is replaced by a different tensor, and a layer above the threshold, which is kept
C1_Witness ==
    /\ pc = "projected"
    /\ configs.select_layers_type = "threshold"
    /\ \E j, h \in 1..NumPairs(calls[1].ori) :
         /\ calls[1].cos_total[j] = calls[1].threshold
         /\ LayerB(calls[1].weights, j) = ProjectedB(calls[1].ori, j)
         /\ LayerB(calls[1].weights, j) # LayerB(calls[1].ori, j)
         /\ ScoreLt(calls[1].threshold, calls[1].cos_total[h])
         /\ LayerB(calls[1].weights, h) = LayerB(calls[1].ori, h)
         /\ LayerB(calls[1].weights, h) # ProjectedB(calls[1].ori, h)

\* C2: under the number policy with k >= 1 (and no NaN score), after the two passes the layers
\* whose lora_B is replaced by its projection are exactly the layers whose score
\* (of the loaded adapter) is <= the k-th smallest score: each of them holds
\* P_j * B_j, every other layer holds the loaded B_j.
C2_NumberPolicyCount ==
    (pc = "projected" /\ configs.select_layers_type = "number"
       /\ configs.num_proj_layers >= 1 /\ NoNaN(cos)) =>
        LET loaded == calls[1].ori
            sorted == NumpySort(cos)
            kth == sorted[Min2(configs.num_proj_layers, Len(sorted))]
        IN  \A j \in 1..NumPairs(loaded) :
                IF ScoreLeq(cos[j], kth)
                THEN LayerB(final_wieghts[1], j) = ProjectedB(loaded, j)
                ELSE LayerB(final_wieghts[1], j) = LayerB(loaded, j)

\* C3: under the number policy the second pass starts from the adapter weights
\* as loaded, computes the scores the first pass computed, and every layer the
\* derived threshold does not select ends with its loaded lora_B.
C3_FirstPassIgnored ==
    (pc = "projected" /\ configs.select_layers_type = "number") =>
        /\ calls[2].ori = calls[1].ori
        /\ calls[2].cos_total = calls[1].cos_total
        /\ \A j \in 1..NumPairs(calls[1].ori) :
             ~ScoreLeq(calls[2].cos_total[j], configs.threshold)
                 => LayerB(final_wieghts[1], j) = LayerB(calls[1].ori, j)

\* C4: two successive calls of project_weights on the dict the caller holds,
\* with the same config and alignment matrices, return the same weights and
\* the same scores, and the first call leaves the caller's dict as it was.
C4_TwoCallsAgree ==
    Len(calls) >= 2 =>
        /\ calls[2].weights = calls[1].weights
        /\ calls[2].cos_total = calls[1].cos_total
        /\ calls[2].ori = calls[1].ori

\* C5: the mapping a call of project_weights returns has exactly the keys of
\* the mapping passed in.
C5_KeysPreserved ==
    \A n \in DOMAIN calls :
        calls[n].ok =>
            /\ Range(Keys(calls[n].weights)) = Range(Keys(calls[n].ori))
            /\ Len(calls[n].weights) = Len(calls[n].ori)

\* a call that replaced a layer, on a dict with lora_A, lora_B and another key
C5_Witness ==
    \E n \in DOMAIN calls :
        /\ calls[n].ok
        /\ calls[n].i >= 1
        /\ calls[n].weights # calls[n].ori
        /\ HasKey(calls[n].weights, ExtraName)
        /\ HasKey(calls[n].weights, LoraName(1, "lora_A"))

\* C6: when a positionally paired base/aligned tensor pair differs in shape,
\* apply_safelora never gets past get_aligned_matrix: project_weights is not
\* called, no adapter weight is loaded or changed, nothing is written or returned
\* (stated as: the run is in that aborted condition, or no pair differs in shape).
C6_ShapeMismatchAborts ==
    \/ /\ pc \in {"start", "raised"}
       /\ calls = <<>>
       /\ peft_weights = <<>>
       /\ writes = 0
       /\ result = <<>>
    \/ ~PairedMismatch

\* the run raised on a mismatch in the second pair, the first pair matching
C6_Witness ==
    /\ pc = "raised"
    /\ err = "AssertionError"
    /\ PairCount >= 2
    /\ ~MismatchAt(1)
    /\ MismatchAt(2)

\* C7: under the number policy with num_proj_layers > n (and no NaN score) no
\* IndexError occurs, the derived threshold is the largest of the n scores and
\* every layer ends replaced by its projection P_j * B_j of the loaded B_j.
C7_ClampSelectsAll ==
    (configs.select_layers_type = "number" /\ configs.num_proj_layers > Len(cos)
       /\ cos # <<>> /\ NoNaN(cos)) =>
        /\ err # "IndexError"
        /\ pc \in {"derived", "projected", "after_save", "returned"} =>
               configs.threshold = NumpySort(cos)[Len(cos)]
        /\ pc = "projected" =>
               \A j \in 1..NumPairs(calls[1].ori) :
                   LayerB(final_wieghts[1], j) = ProjectedB(calls[1].ori, j)

\* C8: when a run ends, the adapter file was written iff save_weights is true
\* and the pipeline completed; it is written at most once; a completed run
\* with save_weights false returns the final mapping (stated for the number
\* policy, whose two passes bind the mapping that is saved and returned).
C8_PersistenceRule ==
    /\ writes <= 1
    /\ (Terminal /\ configs.select_layers_type = "number") =>
         /\ (writes = 1) <=> (configs.save_weights /\ PipelineCompleted)
         /\ (PipelineCompleted /\ ~configs.save_weights) =>
                (pc = "returned" /\ result = <<calls[Len(calls)].weights>>)

\* C9: for stores, single-file or sharded, whose paired target tensors have
\* equal shapes, get_aligned_matrix returns one square matrix per selected
\* name, in order, with side the row count of the name's weight tensor.
C9_MatrixPerSelectedName ==
    (pc # "start" /\ ~PairedMismatch) =>
        /\ Len(v) = Len(TargetTensors(base_model))
        /\ \A j \in DOMAIN v :
             Shape(v[j]) = <<Rows(TargetTensors(base_model)[j].t),
                             Rows(TargetTensors(base_model)[j].t)>>

\* C10: a run that raises has written and returned nothing, a run that returns
\* returns the mapping of the policy's last pass, and a threshold-policy run on
\* well-formed stores (the config object carrying the saveWeights attribute
\* that line 246 reads) does not raise.
C10_NoPartialSuccess ==
    /\ pc = "raised" => (writes = 0 /\ result = <<>>)
    /\ pc = "returned" => result = <<calls[Len(calls)].weights>>
    /\ (configs.select_layers_type = "threshold" /\ WellFormedStores
          /\ configs.saveWeights # "absent") => pc # "raised"
====
